---- MODULE Spec2Model ----
(***************************************************************************)
(* Car-side receiver of the remote keyless-entry system (src/car/car.ino). *)
(* The receiver keeps a rolling counter in RAM and in EEPROM, validates    *)
(* every received frame (IDs, AES rolling code in a window of 256          *)
(* counters, TOTP of the current or previous 30 s epoch) and drives the    *)
(* lock LEDs.                                                              *)
(*                                                                         *)
(* uint32_t values are pairs <<hi, lo>> of 16-bit halves, so that the      *)
(* arithmetic keeps its 32-bit width (wrap-around included).               *)
(***************************************************************************)
EXTENDS Integers, FiniteSets, Sequences, TLC

VARIABLES
    phase,               \* "boot" (powered, setup() not run), "run" (in loop()), "halted" (while(1) of setup)
    eeprom,              \* the uint32_t stored at EEPROM_ADDR
    lastRollingCounter,  \* global lastRollingCounter
    lastSavedCounter,    \* global lastSavedCounter
    clockSec,            \* millis() / 1000 since power-on
    led,                 \* lock output: "off" (pins not driven yet), "locked", "unlocked"
    radio,               \* CC1101 mode: "idle", "rx", "tx"
    aesCollision,        \* the cipher instance: which two counters (if any) share a rolling code
    hmacCollision,       \* the HMAC instance: which two epochs (if any) share a time code
    channel,             \* who transmits: "hostile" (any frame) or "quiet" (the paired fob, one press at a time)
    budget,              \* frames the channel still delivers
    obs,                 \* what the last handler (setup, loop, power loss) saw and did
    acceptedCounters,    \* counters whose packet was accepted in this power-on run
    wrapped,             \* lastRollingCounter wrapped past 2^32 in this power-on run
    streak,              \* length of the current series of accepted +1 validations started with nothing unsaved
    streakSaves,         \* EEPROM saves during that series
    powerLosses          \* power losses so far

vars == <<phase, eeprom, lastRollingCounter, lastSavedCounter, clockSec, led, radio,
          aesCollision, hmacCollision, channel, budget, obs, acceptedCounters,
          wrapped, streak, streakSaves, powerLosses>>

---------------------------------------------------------------------------
(* Bounds of the model *)

\* frames a hostile channel delivers
MaxHostileRx == 2
\* button presses of the paired fob on a quiet channel
MaxPresses == 11
\* clock ticks after power-on
MaxTicks == 2
\* power losses
MaxPowerLosses == 1

---------------------------------------------------------------------------
(* uint32_t arithmetic *)

Half == 65536

\* the uint32_t of a small natural number
U32(n) == <<n \div Half, n % Half>>

\* x + n on 32 bits, n a small natural number
Add32(x, n) ==
    LET s == x[2] + n
    IN  <<(x[1] + (s \div Half)) % Half, s % Half>>

\* x - y on 32 bits
Sub32(x, y) ==
    LET l == x[2] - y[2]
        b == IF l < 0 THEN 1 ELSE 0
    IN  <<(x[1] - y[1] - b + Half) % Half, (l + Half) % Half>>

Lt32(x, y) == x[1] < y[1] \/ (x[1] = y[1] /\ x[2] < y[2])

Le32(x, y) == x = y \/ Lt32(x, y)

\* 0xFFFFFFFF
UINT32_MAX == <<Half - 1, Half - 1>>

---------------------------------------------------------------------------
(* Configuration *)

ACTION_UNLOCK == 0
ACTION_LOCK == 1
EEPROM_SAVE_INTERVAL == 10
ROLLING_WINDOW == 256

\* 0xCAFEBABE
CAR_ID == <<51966, 47806>>
\* 0x12345678
KEYFOB_ID == <<4660, 22136>>

\* 0xFFFFFF00, the start of the guard band of setup()
GUARD_BAND == <<Half - 1, Half - ROLLING_WINDOW>>

\* sizes of the fields of struct Packet, in declaration order
PacketFieldSizes == <<4, 4, 1, 4, 4>>

\* the offset after laying out the first n fields, each aligned to its size
RECURSIVE LayoutEnd(_)
LayoutEnd(n) ==
    IF n = 0 THEN 0
    ELSE LET sz  == PacketFieldSizes[n]
             at  == LayoutEnd(n - 1)
             pad == (sz - (at % sz)) % sz
         IN  at + pad + sz

\* sizeof(Packet): the struct is not packed, its alignment is that of uint32_t
SizeofPacket ==
    LET end == LayoutEnd(Len(PacketFieldSizes))
    IN  end + ((4 - (end % 4)) % 4)

---------------------------------------------------------------------------
(* Crypto functions *)

\* The round function of the stand-in cipher
CipherRound(x) == (x * 31 + 7) % Half

\* generateRollingCode: the first 32 bits of AES-128(ROLLING_KEY, counter || 0..0).
\* The cipher is not computed; it is a fixed function of the counter, scrambling
\* it (one Feistel round, a bijection of the 32-bit values) except that the
\* truncation to 32 bits may make two counters share a code: aesCollision.later
\* yields the code of aesCollision.earlier.
generateRollingCode(counter) ==
    LET c == IF counter = aesCollision.later THEN aesCollision.earlier ELSE counter
    IN  <<c[2], (c[1] + CipherRound(c[2])) % Half>>

\* generateTOTP: HMAC-SHA256(TOTP_SECRET, epoch as 8 bytes big-endian),
\* dynamically truncated to 31 bits, modulo 1000000. The hash is not computed;
\* it is a fixed function of the epoch into 0..999999, and two epochs may share
\* a code: hmacCollision.later yields the code of hmacCollision.earlier.
generateTOTP(epoch) ==
    LET e == IF epoch = hmacCollision.later THEN hmacCollision.earlier ELSE epoch
    IN  (e[1] * 31 + e[2] * 7919 + 271828) % 1000000

---------------------------------------------------------------------------
(* validatePacket *)

Packet(car, fob, action, rc, totp) ==
    [carID |-> car, keyfobID |-> fob, action |-> action, rollingCode |-> rc, totp |-> totp]

\* the largest value of the loop's uint16_t offset
OffsetMax == Half - 1

\* offset <= ROLLING_WINDOW
WindowOffsetsOneMore == 0..ROLLING_WINDOW

\* the offsets of the for loop
WindowOffsets == 0..(ROLLING_WINDOW - 1)

\* the sum held at 0xFFFFFFFF where it would wrap
testCounterSaturating(counter, offset) ==
    IF Lt32(Add32(counter, offset), counter) THEN UINT32_MAX ELSE Add32(counter, offset)

\* uint32_t testCounter = lastRollingCounter + offset
testCounter(counter, offset) == Add32(counter, offset)

\* lastRollingCounter = testCounter, the increment forgotten
NextCounterNoIncrement(counter, offset) == testCounter(counter, offset)

\* lastRollingCounter = offset + 1, the base forgotten
NextCounterFromOffset(counter, offset) == U32(offset + 1)

\* lastRollingCounter = testCounter + 1
NextCounter(counter, offset) == Add32(testCounter(counter, offset), 1)

\* the counters the stand-in cipher maps to the code rc: its inverse, and the
\* colliding counter when the inverse is the one it collides with
Preimages(rc) ==
    LET c == <<(rc[2] - CipherRound(rc[1]) + Half) % Half, rc[1]>>
    IN  IF aesCollision.earlier = aesCollision.later THEN {c}
        ELSE IF c = aesCollision.later THEN {}
        ELSE IF c = aesCollision.earlier THEN {c, aesCollision.later}
        ELSE {c}

\* the offsets at which the if of the loop body is true. Only offsets that lead
\* to a preimage of the packet's code can pass the comparison, so those are the
\* ones enumerated; the comparison itself is the loop's.
MatchingOffsets(pkt, counter) ==
    {o \in {Sub32(c, counter)[2] : c \in Preimages(pkt.rollingCode)} :
        /\ o \in WindowOffsets
        /\ pkt.rollingCode = generateRollingCode(testCounter(counter, o))}

\* the scan goes on to the last match
LastMatch(offsets) == CHOOSE o \in offsets : \A p \in offsets : o >= p

\* the loop runs in ascending order and returns inside the first match
FirstMatch(offsets) == CHOOSE o \in offsets : \A p \in offsets : o <= p

\* ... > EEPROM_SAVE_INTERVAL
SaveDueStrict(counter, saved) == Lt32(U32(EEPROM_SAVE_INTERVAL), Sub32(counter, saved))

\* saved on every update
SaveDueAlways(counter, saved) == TRUE

\* lastRollingCounter - lastSavedCounter >= EEPROM_SAVE_INTERVAL
SaveDue(counter, saved) == ~Lt32(Sub32(counter, saved), U32(EEPROM_SAVE_INTERVAL))

EPOCH_SECONDS == 30

\* uint32_t currentEpoch = (millis() / 1000) / 30
currentEpoch(sec) == U32(sec \div EPOCH_SECONDS)

\* currentEpoch - 2
previousEpochTwoBack(sec) == Sub32(currentEpoch(sec), U32(2))

\* currentEpoch - 1
previousEpoch(sec) == Sub32(currentEpoch(sec), U32(1))

\* only the car's ID is compared
IdsMatchCarOnly(pkt) == pkt.carID = CAR_ID

IdsMatch(pkt) == pkt.carID = CAR_ID /\ pkt.keyfobID = KEYFOB_ID

\* a sync after every validation that found the rolling code
SyncSendsAlways(valid) == 1

\* the SendData calls of the sync block, which the two returns on a valid TOTP skip
SyncSends(valid) == IF valid THEN 0 ELSE 1

\* the sync block without its SetRx
SyncRadioStaysTx(valid) == IF valid THEN <<>> ELSE <<"tx">>

\* the modes the sync block puts the radio in: SetTx before SendData, SetRx after it
SyncRadio(valid) == IF valid THEN <<>> ELSE <<"tx", "rx">>

\* The effect of validatePacket(pkt) called with the given globals, EEPROM
\* content and clock: its return value, the path taken, the globals and EEPROM
\* afterwards, and what it did on the way.
validatePacket(pkt, counter, saved, store, sec) ==
    IF ~IdsMatch(pkt)
    THEN [ret |-> FALSE, outcome |-> "RejectedIdMismatch",
          counter |-> counter, saved |-> saved, store |-> store,
          saves |-> 0, syncs |-> 0, rcEvals |-> 0, totpEvals |-> 0,
          matched |-> <<>>, radio |-> <<>>]
    ELSE
    LET found == MatchingOffsets(pkt, counter) IN
    IF found = {}
    THEN [ret |-> FALSE, outcome |-> "RejectedNoCodeMatch",
          counter |-> counter, saved |-> saved, store |-> store,
          saves |-> 0, syncs |-> 0, rcEvals |-> Cardinality(WindowOffsets), totpEvals |-> 0,
          matched |-> <<>>, radio |-> <<>>]
    ELSE
    LET offset  == FirstMatch(found)
        next    == NextCounter(counter, offset)
        due     == SaveDue(next, saved)
        current == pkt.totp = generateTOTP(currentEpoch(sec))
        prev    == pkt.totp = generateTOTP(previousEpoch(sec))
    IN  [ret |-> current \/ prev,
         outcome |-> IF current \/ prev THEN "Accepted" ELSE "RejectedTimeCodeMismatch",
         counter |-> next,
         saved |-> IF due THEN next ELSE saved,
         store |-> IF due THEN next ELSE store,
         saves |-> IF due THEN 1 ELSE 0,
         syncs |-> SyncSends(current \/ prev),
         rcEvals |-> offset + 1,
         totpEvals |-> IF current THEN 1 ELSE 2,
         matched |-> <<testCounter(counter, offset)>>,
         radio |-> SyncRadio(current \/ prev)]

---------------------------------------------------------------------------
(* Actions of lock and unlock *)

\* lockCar(): green LOW, red HIGH
lockCar == "locked"

\* unlockCar(): red LOW, green HIGH
unlockCar == "unlocked"

\* every action but unlock locks
ActuateElseLock(action, before) ==
    IF action = ACTION_UNLOCK THEN unlockCar ELSE lockCar

\* the if / else if on pkt.action after a valid packet
Actuate(action, before) ==
    IF action = ACTION_UNLOCK THEN unlockCar
    ELSE IF action = ACTION_LOCK THEN lockCar
    ELSE before

\* the action is carried out whatever validatePacket returned
ActuateIfValidUnchecked(valid, action, before) == Actuate(action, before)

\* if (validatePacket(pkt)) { ... } else { "[FAIL]" }
ActuateIfValid(valid, action, before) ==
    IF valid THEN Actuate(action, before) ELSE before

---------------------------------------------------------------------------
(* What the environment provides *)

NoCollision == [earlier |-> U32(0), later |-> U32(0)]

\* cipher instances: injective, or counter 254 encrypts to the code of counter 0
AesInstances == {NoCollision, [earlier |-> U32(0), later |-> U32(254)]}

\* HMAC instances: injective, or epoch 2 hashes to the code of epoch 0
HmacInstances == {NoCollision, [earlier |-> U32(0), later |-> U32(2)]}

\* EEPROM contents found at power-on: a fresh counter, the largest value setup()
\* keeps, a value in the guard band, the erased cell
EepromImages == {U32(0), GUARD_BAND, Add32(GUARD_BAND, 1), UINT32_MAX}

\* seconds between two observations of the clock
TickSec == 30

\* a time code no epoch yields (generateTOTP stays below 1000000)
WrongTotp == 1000000

\* the counters whose rolling code a hostile channel carries: the one just
\* consumed, the window's first, its last two, and the first beyond it
HostileCounters(counter) ==
    {Sub32(counter, U32(1)), counter, Add32(counter, ROLLING_WINDOW - 2),
     Add32(counter, ROLLING_WINDOW - 1), Add32(counter, ROLLING_WINDOW)}

\* the time codes a hostile channel carries: of this epoch, of the two before, and a wrong one
HostileTotps(sec) ==
    {generateTOTP(currentEpoch(sec)), generateTOTP(previousEpoch(sec)),
     generateTOTP(Sub32(currentEpoch(sec), U32(2))), WrongTotp}

Frame(len, pkt) == [len |-> len, pkt |-> pkt]

\* frames on a hostile channel
HostileFrames(counter, sec) ==
    LET rc0 == generateRollingCode(counter)
        t0  == generateTOTP(currentEpoch(sec))
    IN  {Frame(SizeofPacket, Packet(CAR_ID, KEYFOB_ID, ACTION_UNLOCK, generateRollingCode(c), t)) :
            c \in HostileCounters(counter), t \in HostileTotps(sec)}
        \cup {Frame(SizeofPacket, Packet(CAR_ID, KEYFOB_ID, a, rc0, t0)) : a \in {ACTION_LOCK, 2}}
        \cup {Frame(SizeofPacket, Packet(KEYFOB_ID, KEYFOB_ID, ACTION_UNLOCK, rc0, t0)),
              Frame(SizeofPacket, Packet(CAR_ID, CAR_ID, ACTION_UNLOCK, rc0, t0)),
              Frame(SizeofPacket, Packet(KEYFOB_ID, CAR_ID, ACTION_UNLOCK,
                                         generateRollingCode(Add32(counter, ROLLING_WINDOW)),
                                         WrongTotp)),
              Frame(17, Packet(CAR_ID, KEYFOB_ID, ACTION_UNLOCK, rc0, t0))}

\* frames of the paired fob, in step with the car and with its clock
QuietFrames(counter, sec) ==
    {Frame(SizeofPacket, Packet(CAR_ID, KEYFOB_ID, a, generateRollingCode(counter),
                                generateTOTP(currentEpoch(sec)))) :
        a \in {ACTION_UNLOCK, ACTION_LOCK}}

Frames(counter, sec) ==
    IF channel = "hostile" THEN HostileFrames(counter, sec) ELSE QuietFrames(counter, sec)

\* what can become of the SendData of a sync, which returns nothing: the sync
\* goes out, or (tried on the frame with the expected rolling code and the wrong
\* time code) it does not
SendResults(frame, counter) ==
    IF frame.pkt.rollingCode = generateRollingCode(counter) /\ frame.pkt.totp = WrongTotp
    THEN BOOLEAN ELSE {TRUE}

---------------------------------------------------------------------------
(* State machine *)

NoPacket == Packet(U32(0), U32(0), 0, U32(0), 0)

\* obs before anything has run
NoObs ==
    [op |-> "poweron", len |-> 0, pkt |-> NoPacket,
     counter |-> U32(0), saved |-> U32(0), store |-> U32(0), sec |-> 0, led |-> "off",
     ret |-> FALSE, outcome |-> "none", saves |-> 0, syncs |-> 0,
     rcEvals |-> 0, totpEvals |-> 0, matched |-> <<>>, radio |-> <<>>, sent |-> 0,
     replayed |-> FALSE, accepted |-> {}, rebooted |-> FALSE]

Init ==
    /\ phase = "boot"
    /\ eeprom \in EepromImages
    /\ lastRollingCounter = U32(0)
    /\ lastSavedCounter = U32(0)
    /\ clockSec = 0
    /\ led = "off"
    /\ radio = "idle"
    /\ aesCollision \in AesInstances
    /\ hmacCollision \in HmacInstances
    /\ (aesCollision = NoCollision \/ hmacCollision = NoCollision)
    /\ channel \in {"hostile", "quiet"}
    /\ budget = IF channel = "hostile" THEN MaxHostileRx ELSE MaxPresses
    /\ obs = NoObs
    /\ acceptedCounters = {}
    /\ wrapped = FALSE
    /\ streak = 0
    /\ streakSaves = 0
    /\ powerLosses = 0

\* only the erased cell is reset
CounterCorruptSentinelOnly(v) == v = UINT32_MAX

\* the check of the loaded counter in setup()
CounterCorrupt(v) == v = UINT32_MAX \/ Lt32(GUARD_BAND, v)

\* lastSavedCounter taken from the EEPROM, not from the checked counter
SavedAtSetupLoaded(loaded, counter) == loaded

\* lastSavedCounter = lastRollingCounter at the end of the counter's recovery
SavedAtSetup(loaded, counter) == counter

\* setup(): lock, load the counter, reset a corrupt one, start the radio.
\* radioOk is the answer of ELECHOUSE_cc1101.getCC1101().
Setup(radioOk) ==
    /\ phase = "boot"
    /\ led' = lockCar
    /\ LET loaded  == eeprom
           corrupt == CounterCorrupt(loaded)
           counter == IF corrupt THEN U32(0) ELSE loaded
       IN  /\ lastRollingCounter' = counter
           /\ eeprom' = IF corrupt THEN counter ELSE eeprom
           /\ lastSavedCounter' = SavedAtSetup(loaded, counter)
           /\ obs' = [NoObs EXCEPT !.op = "setup", !.store = loaded, !.sec = clockSec,
                                   !.saves = IF corrupt THEN 1 ELSE 0,
                                   !.counter = obs.counter, !.saved = obs.saved,
                                   !.accepted = obs.accepted,
                                   !.rebooted = (obs.op = "powerloss")]
    /\ phase' = IF radioOk THEN "run" ELSE "halted"
    /\ radio' = IF radioOk THEN "rx" ELSE "idle"
    /\ UNCHANGED <<clockSec, aesCollision, hmacCollision, channel, budget,
                   acceptedCounters, wrapped, streak, streakSaves, powerLosses>>

\* loop() with a frame in the RX FIFO: check the length, validate, actuate,
\* return to receive mode. sendOk tells whether a sync handed to SendData goes out.
LoopRx(frame, sendOk) ==
    /\ phase = "run"
    /\ budget > 0
    /\ budget' = budget - 1
    /\ IF frame.len = SizeofPacket
       THEN \E v \in {validatePacket(frame.pkt, lastRollingCounter, lastSavedCounter,
                                       eeprom, clockSec)} :
            LET step == v.outcome = "Accepted"
                        /\ v.counter = Add32(lastRollingCounter, 1)
                        /\ (streak \in 1..(EEPROM_SAVE_INTERVAL - 1)
                            \/ lastSavedCounter = lastRollingCounter)
                base == IF streak \in 1..(EEPROM_SAVE_INTERVAL - 1) THEN streak ELSE 0
            IN  /\ lastRollingCounter' = v.counter
                /\ lastSavedCounter' = v.saved
                /\ eeprom' = v.store
                /\ led' = ActuateIfValid(v.ret, frame.pkt.action, led)
                /\ obs' = [op |-> "loop", len |-> frame.len, pkt |-> frame.pkt,
                           counter |-> lastRollingCounter, saved |-> lastSavedCounter,
                           store |-> eeprom, sec |-> clockSec, led |-> led,
                           ret |-> v.ret, outcome |-> v.outcome, saves |-> v.saves,
                           syncs |-> v.syncs, rcEvals |-> v.rcEvals,
                           totpEvals |-> v.totpEvals, matched |-> v.matched,
                           radio |-> v.radio,
                           sent |-> IF sendOk THEN v.syncs ELSE 0,
                           replayed |-> v.ret /\ \E c \in acceptedCounters :
                                           generateRollingCode(c) = frame.pkt.rollingCode,
                           accepted |-> acceptedCounters, rebooted |-> FALSE]
                /\ acceptedCounters' = IF v.ret THEN acceptedCounters \cup {v.matched[1]}
                                       ELSE acceptedCounters
                /\ wrapped' = (wrapped \/ Lt32(v.counter, lastRollingCounter))
                /\ streak' = IF step THEN base + 1 ELSE 0
                /\ streakSaves' = IF step THEN (IF base = 0 THEN 0 ELSE streakSaves) + v.saves
                                  ELSE 0
       ELSE /\ obs' = [NoObs EXCEPT !.op = "loop", !.len = frame.len, !.pkt = frame.pkt,
                                    !.counter = lastRollingCounter, !.saved = lastSavedCounter,
                                    !.store = eeprom, !.sec = clockSec, !.led = led,
                                    !.outcome = "WrongSize", !.accepted = acceptedCounters]
            /\ UNCHANGED <<lastRollingCounter, lastSavedCounter, eeprom, led,
                           acceptedCounters, wrapped, streak, streakSaves>>
    /\ radio' = "rx"
    /\ UNCHANGED <<phase, clockSec, aesCollision, hmacCollision, channel, powerLosses>>

\* loop() with an empty RX FIFO: nothing but the delay
LoopIdle ==
    /\ phase = "run"
    /\ UNCHANGED vars

\* time passes
Tick ==
    /\ phase = "run"
    /\ clockSec + TickSec <= MaxTicks * TickSec
    /\ clockSec' = clockSec + TickSec
    /\ UNCHANGED <<phase, eeprom, lastRollingCounter, lastSavedCounter, led, radio,
                   aesCollision, hmacCollision, channel, budget, obs, acceptedCounters,
                   wrapped, streak, streakSaves, powerLosses>>

\* power is lost and returns: RAM holds its initializers again, millis() restarts,
\* the EEPROM keeps its content
PowerLoss ==
    /\ phase \in {"run", "halted"}
    /\ powerLosses < MaxPowerLosses
    /\ powerLosses' = powerLosses + 1
    /\ phase' = "boot"
    /\ lastRollingCounter' = U32(0)
    /\ lastSavedCounter' = U32(0)
    /\ clockSec' = 0
    /\ led' = "off"
    /\ radio' = "idle"
    /\ obs' = [NoObs EXCEPT !.op = "powerloss", !.counter = lastRollingCounter,
                            !.saved = lastSavedCounter, !.store = eeprom,
                            !.accepted = acceptedCounters]
    /\ acceptedCounters' = {}
    /\ wrapped' = FALSE
    /\ streak' = 0
    /\ streakSaves' = 0
    /\ UNCHANGED <<eeprom, aesCollision, hmacCollision, channel, budget>>

Next ==
    \/ \E radioOk \in BOOLEAN : Setup(radioOk)
    \/ \E frame \in Frames(lastRollingCounter, clockSec) :
          \E sendOk \in SendResults(frame, lastRollingCounter) : LoopRx(frame, sendOk)
    \/ LoopIdle
    \/ Tick
    \/ PowerLoss

Spec == Init /\ [][Next]_vars

---------------------------------------------------------------------------
(* Vocabulary of the properties *)

\* the last handler was loop() and its frame reached validatePacket
Validated == obs.op = "loop" /\ obs.len = SizeofPacket

\* the offsets k in 0..255 with rc = generateRollingCode(L + k)
WindowHits(rc, L) ==
    {d[2] : d \in {e \in {Sub32(c, L) : c \in Preimages(rc)} :
                      e[1] = 0 /\ e[2] < ROLLING_WINDOW}}

\* WindowHits and the offsets the loop matches are the offsets a scan of all 256
\* counters of the window finds
ScanAgrees ==
    Validated =>
        LET scan == {o \in 0..255 :
                        obs.pkt.rollingCode = generateRollingCode(Add32(obs.counter, o))}
        IN  /\ scan = WindowHits(obs.pkt.rollingCode, obs.counter)
            /\ scan = MatchingOffsets(obs.pkt, obs.counter)

\* the packet's time code is that of the epoch of validation or of the one before
TimeCodeValid ==
    \/ obs.pkt.totp = generateTOTP(U32(obs.sec \div 30))
    \/ obs.pkt.totp = generateTOTP(Sub32(U32(obs.sec \div 30), U32(1)))

\* counter c lies in L-1 .. L+256: the window at L, the counter before it and
\* the one after it
AroundWindow(c, L) ==
    LET d == Sub32(Add32(c, 1), L)
    IN  d[1] = 0 /\ d[2] <= ROLLING_WINDOW + 1

\* counter c lies in the window L .. L+255
Searched(c, L) ==
    LET d == Sub32(c, L)
    IN  d[1] = 0 /\ d[2] < ROLLING_WINDOW

\* the cipher is injective on the window at L and its two neighbours
InjectiveAround(L) ==
    \/ aesCollision.earlier = aesCollision.later
    \/ ~AroundWindow(aesCollision.earlier, L)
    \/ ~AroundWindow(aesCollision.later, L)

---------------------------------------------------------------------------
(* Properties *)

\* C1 (as claimed): a packet with matching IDs whose rolling code is that of
\* some counter of the window but whose time code is neither the current nor
\* the previous epoch's is rejected as a time-code mismatch, and
\* lastRollingCounter is what it was before the validation.
C1_NoReplayOnMismatch ==
    (/\ Validated
     /\ IdsMatch(obs.pkt)
     /\ WindowHits(obs.pkt.rollingCode, obs.counter) # {}
     /\ ~TimeCodeValid)
    => /\ obs.outcome = "RejectedTimeCodeMismatch"
       /\ lastRollingCounter = obs.counter

\* C2 (as claimed): a packet with matching IDs, the rolling code of counter
\* L + k (0 <= k < 256) and a valid time code is accepted, and
\* lastRollingCounter becomes the number L + k + 1.
C2_WindowAcceptance_Original ==
    (Validated /\ IdsMatch(obs.pkt) /\ TimeCodeValid)
    => \A k \in WindowHits(obs.pkt.rollingCode, obs.counter) :
          /\ obs.outcome = "Accepted"
          /\ lastRollingCounter = Add32(obs.counter, k + 1)
          /\ Lt32(obs.counter, lastRollingCounter)

\* C2 (amended): such a packet is accepted, and lastRollingCounter becomes
\* (L + j + 1) mod 2^32, where j is the least offset of the window whose rolling
\* code is the packet's (j = k unless an earlier counter of the window has the
\* same code).
C2_WindowAcceptance ==
    (Validated /\ IdsMatch(obs.pkt) /\ TimeCodeValid)
    => LET hits == WindowHits(obs.pkt.rollingCode, obs.counter)
       IN  hits # {} =>
             /\ obs.outcome = "Accepted"
             /\ \E j \in hits : /\ \A i \in hits : j <= i
                                /\ lastRollingCounter = Add32(obs.counter, j + 1)

\* C2 witness: the code of the last counter of the window was accepted
C2_Witness ==
    /\ Validated
    /\ obs.outcome = "Accepted"
    /\ (ROLLING_WINDOW - 1) \in WindowHits(obs.pkt.rollingCode, obs.counter)
    /\ lastRollingCounter = Add32(obs.counter, ROLLING_WINDOW)

\* C3: where the cipher is injective on the counters involved, a packet with
\* matching IDs and the rolling code of counter L - 1 or of counter L + 256 ends
\* in "no code match", whatever its time code, and lastRollingCounter is unchanged.
C3_WindowExhaustion ==
    (/\ Validated
     /\ IdsMatch(obs.pkt)
     /\ InjectiveAround(obs.counter)
     /\ \/ obs.pkt.rollingCode = generateRollingCode(Sub32(obs.counter, U32(1)))
        \/ obs.pkt.rollingCode = generateRollingCode(Add32(obs.counter, 256)))
    => /\ obs.outcome = "RejectedNoCodeMatch"
       /\ lastRollingCounter = obs.counter

\* C3 witness: the first code beyond the window came with a valid time code and
\* found no match
C3_Witness ==
    /\ Validated
    /\ IdsMatch(obs.pkt)
    /\ InjectiveAround(obs.counter)
    /\ obs.pkt.rollingCode = generateRollingCode(Add32(obs.counter, 256))
    /\ TimeCodeValid
    /\ obs.outcome = "RejectedNoCodeMatch"

\* the packet just validated carries the rolling code of a counter accepted before
PresentedAgain ==
    /\ Validated
    /\ \E c \in obs.accepted : generateRollingCode(c) = obs.pkt.rollingCode

\* the cipher is injective on the counters accepted before the last validation
\* and on the window it searched
InjectiveOnAccepted ==
    \/ aesCollision.earlier = aesCollision.later
    \/ ~(aesCollision.earlier \in obs.accepted \/ Searched(aesCollision.earlier, obs.counter))
    \/ ~(aesCollision.later \in obs.accepted \/ Searched(aesCollision.later, obs.counter))

\* C4 (as claimed): lastRollingCounter is above every counter accepted in this
\* power-on run, and a packet accepted before is not accepted when it is
\* presented again (cipher injective on the counters involved).
C4_NoSecondAcceptance_Original ==
    phase = "run" =>
        /\ \A c \in acceptedCounters : Lt32(c, lastRollingCounter)
        /\ (PresentedAgain /\ InjectiveOnAccepted) => obs.outcome # "Accepted"

\* C4 (amended): the same, as long as lastRollingCounter has not wrapped past
\* 2^32 in this power-on run.
C4_NoSecondAcceptance ==
    (phase = "run" /\ ~wrapped) =>
        /\ \A c \in acceptedCounters : Lt32(c, lastRollingCounter)
        /\ (PresentedAgain /\ InjectiveOnAccepted) => obs.outcome # "Accepted"

\* C4 witness: an accepted packet was presented again, with a valid time code,
\* and found no match
C4_Witness ==
    /\ phase = "run"
    /\ ~wrapped
    /\ PresentedAgain
    /\ InjectiveOnAccepted
    /\ IdsMatch(obs.pkt)
    /\ TimeCodeValid
    /\ obs.outcome = "RejectedNoCodeMatch"

\* C5 (as claimed): no step of a power-on run lowers lastRollingCounter.
C5_Monotonic_Original ==
    [][(phase = "run" /\ phase' = "run") => Le32(lastRollingCounter, lastRollingCounter')]_vars

\* C5 (amended): a step of a power-on run adds at most 256 to lastRollingCounter,
\* modulo 2^32; it does not lower it, except that from 0xFFFFFF00 on the
\* addition may wrap it past 2^32 to a value below 256.
C5_Monotonic ==
    [][(phase = "run" /\ phase' = "run")
        => /\ LET d == Sub32(lastRollingCounter', lastRollingCounter)
              IN  d[1] = 0 /\ d[2] <= 256
           /\ \/ Le32(lastRollingCounter, lastRollingCounter')
              \/ /\ Le32(GUARD_BAND, lastRollingCounter)
                 /\ Lt32(lastRollingCounter', U32(256))]_vars

\* C5 witness: a validation raised the counter below the wrap
C5_Witness ==
    /\ Validated
    /\ phase = "run"
    /\ Lt32(obs.counter, GUARD_BAND)
    /\ Lt32(obs.counter, lastRollingCounter)

\* C6 (as claimed): after startup lastSavedCounter <= lastRollingCounter.
C6_PersistedNotAbove_Original ==
    phase = "run" => Le32(lastSavedCounter, lastRollingCounter)

\* C6 (amended): after startup lastSavedCounter <= lastRollingCounter, except
\* when lastRollingCounter has wrapped past 2^32 since the last save: then
\* lastSavedCounter is one of the 9 values from 2^32 - 9 and lastRollingCounter
\* is below 9.
C6_PersistedNotAbove ==
    phase = "run" =>
        \/ Le32(lastSavedCounter, lastRollingCounter)
        \/ /\ Le32(Sub32(U32(0), U32(9)), lastSavedCounter)
           /\ Lt32(lastRollingCounter, U32(9))

\* C6 witness: validations have left the persisted counter behind
C6_Witness ==
    /\ phase = "run"
    /\ Validated
    /\ Lt32(lastSavedCounter, lastRollingCounter)

\* C7: at an epoch E >= 2 and with a rolling code of the window, the time code
\* of E or of E - 1 is accepted, and a time code that is the one of E - 2 and
\* not the one of E or E - 1 is rejected.
C7_EpochTolerance ==
    (/\ Validated
     /\ IdsMatch(obs.pkt)
     /\ WindowHits(obs.pkt.rollingCode, obs.counter) # {}
     /\ obs.sec \div 30 >= 2)
    => LET E == obs.sec \div 30
       IN  /\ obs.pkt.totp \in {generateTOTP(U32(E)), generateTOTP(U32(E - 1))}
              => obs.outcome = "Accepted"
           /\ (/\ obs.pkt.totp = generateTOTP(U32(E - 2))
               /\ obs.pkt.totp \notin {generateTOTP(U32(E)), generateTOTP(U32(E - 1))})
              => (~obs.ret /\ obs.outcome = "RejectedTimeCodeMismatch")

\* C7 witness: at an epoch >= 2 the time code of the previous epoch, different
\* from the current one, was accepted
C7_Witness ==
    /\ Validated
    /\ obs.sec \div 30 >= 2
    /\ obs.pkt.totp = generateTOTP(U32((obs.sec \div 30) - 1))
    /\ obs.pkt.totp # generateTOTP(U32(obs.sec \div 30))
    /\ obs.outcome = "Accepted"

\* C8: in a series of accepted validations that each advance the counter by 1,
\* started with lastSavedCounter = lastRollingCounter, the first 9 save nothing
\* and the 10th saves once, the counter it has reached; and a validation saves
\* only when the counter has reached lastSavedCounter + 10 or more.
C8_Coalescing ==
    /\ streak \in 1..9 => (streakSaves = 0 /\ obs.saves = 0)
    /\ streak = 10 => /\ streakSaves = 1
                      /\ obs.saves = 1
                      /\ eeprom = lastRollingCounter
                      /\ lastRollingCounter = Add32(obs.saved, 10)
    /\ Validated => obs.saves \in {0, 1}
    /\ (Validated /\ obs.saves = 1)
       => /\ ~Lt32(Sub32(lastRollingCounter, obs.saved), U32(10))
          /\ eeprom = lastRollingCounter

\* C8 witness: the 10th validation of such a series
C8_Witness == streak = 10 /\ Validated /\ obs.outcome = "Accepted"

\* the counter found in the EEPROM is one that setup() keeps
Kept(v) == v # UINT32_MAX /\ Le32(v, GUARD_BAND)

\* C9 (as claimed): after a validation lastRollingCounter - lastSavedCounter <= 9,
\* and a restart reloads a counter at most 9 below the one held when power was lost.
C9_BoundedReplay_Original ==
    /\ Validated => Le32(Sub32(lastRollingCounter, lastSavedCounter), U32(9))
    /\ (obs.op = "setup" /\ obs.rebooted)
       => Le32(Sub32(obs.counter, lastRollingCounter), U32(9))

\* C9 (amended): after a validation (lastRollingCounter - lastSavedCounter) mod
\* 2^32 <= 9 and the EEPROM holds lastSavedCounter; a restart reloads a counter at
\* most 9 below the one held when power was lost, unless the EEPROM holds
\* 0xFFFFFFFF or a value above 0xFFFFFF00: then the restart resets the counter to 0.
C9_BoundedReplay ==
    /\ Validated => /\ Le32(Sub32(lastRollingCounter, lastSavedCounter), U32(9))
                    /\ eeprom = lastSavedCounter
    /\ (obs.op = "setup" /\ obs.rebooted)
       => IF Kept(obs.store)
          THEN Le32(Sub32(obs.counter, lastRollingCounter), U32(9))
          ELSE lastRollingCounter = U32(0)

\* C9 witness: power was lost with 9 accepted counters unsaved, and the restart
\* reloaded the counter 9 below
C9_Witness ==
    /\ obs.op = "setup"
    /\ obs.rebooted
    /\ Kept(obs.store)
    /\ Cardinality(obs.accepted) = 9
    /\ obs.counter = Add32(lastRollingCounter, 9)

\* C10: setup() turns a loaded 0xFFFFFFFF or a loaded value above 0xFFFFFF00 into
\* 0, in both counters and in the EEPROM, with one write; any other loaded value
\* is taken over into both counters without a write.
C10_StartupRecovery ==
    obs.op = "setup" =>
        IF obs.store = UINT32_MAX \/ Lt32(GUARD_BAND, obs.store)
        THEN /\ lastRollingCounter = U32(0)
             /\ lastSavedCounter = U32(0)
             /\ eeprom = U32(0)
             /\ obs.saves = 1
        ELSE /\ lastRollingCounter = obs.store
             /\ lastSavedCounter = obs.store
             /\ eeprom = obs.store
             /\ obs.saves = 0

\* C10 witness: a value of the guard band was loaded and reset
C10_Witness ==
    /\ obs.op = "setup"
    /\ obs.store = Add32(GUARD_BAND, 1)
    /\ lastRollingCounter = U32(0)
    /\ eeprom = U32(0)

\* C11 (as claimed): a validation that ends in an ID mismatch, in no code match
\* or in a time-code mismatch saves nothing and leaves lastRollingCounter,
\* lastSavedCounter and the EEPROM as they were before it.
C11_NoCommitOnReject ==
    (/\ Validated
     /\ obs.outcome \in {"RejectedIdMismatch", "RejectedNoCodeMatch",
                         "RejectedTimeCodeMismatch"})
    => /\ obs.saves = 0
       /\ lastRollingCounter = obs.counter
       /\ lastSavedCounter = obs.saved
       /\ eeprom = obs.store

\* C12: handling a frame sends the sync once when the frame reached
\* validatePacket with matching IDs, a rolling code of the window and a time
\* code of neither the current nor the previous epoch, which is when the
\* validation ends in the time-code mismatch; it sends none when the validation
\* ends in acceptance, in an ID mismatch or in no code match, or when the frame
\* has the wrong length.
C12_SyncOncePerMismatch ==
    obs.op = "loop" =>
        /\ obs.syncs = IF /\ Validated
                          /\ IdsMatch(obs.pkt)
                          /\ WindowHits(obs.pkt.rollingCode, obs.counter) # {}
                          /\ ~TimeCodeValid
                       THEN 1 ELSE 0
        /\ obs.outcome = "RejectedTimeCodeMismatch" => obs.syncs = 1
        /\ obs.outcome \in {"Accepted", "RejectedIdMismatch", "RejectedNoCodeMatch",
                            "WrongSize"} => obs.syncs = 0

\* C12 witness: a validation ended in the time-code mismatch and sent one sync
C12_Witness ==
    /\ Validated
    /\ obs.outcome = "RejectedTimeCodeMismatch"
    /\ obs.matched # <<>>
    /\ obs.syncs = 1

\* C13: a packet whose carID is not the car's or whose keyfobID is not the
\* paired fob's is rejected as an ID mismatch, with no rolling code and no time
\* code computed, whatever its rolling code and time code are; both counters and
\* the EEPROM stay as they were, nothing is saved and no sync is sent.
C13_IdCheckFirst ==
    (Validated /\ (obs.pkt.carID # CAR_ID \/ obs.pkt.keyfobID # KEYFOB_ID))
    => /\ obs.outcome = "RejectedIdMismatch"
       /\ ~obs.ret
       /\ obs.rcEvals = 0
       /\ obs.totpEvals = 0
       /\ lastRollingCounter = obs.counter
       /\ lastSavedCounter = obs.saved
       /\ eeprom = obs.store
       /\ obs.saves = 0
       /\ obs.syncs = 0

\* C13 witness: a packet of another fob with the rolling code the car expects
\* and the time code of the epoch was rejected for its ID
C13_Witness ==
    /\ Validated
    /\ obs.pkt.carID = CAR_ID
    /\ obs.pkt.keyfobID # KEYFOB_ID
    /\ 0 \in WindowHits(obs.pkt.rollingCode, obs.counter)
    /\ TimeCodeValid
    /\ obs.outcome = "RejectedIdMismatch"

\* C14: handling a frame changes the lock output only when the frame's packet
\* was validated as Accepted, and then to the state its action asks for (0
\* unlocked, 1 locked); after a frame of the wrong length, an ID mismatch, no
\* code match or a time-code mismatch the lock output is what it was, and the
\* receiver is running with the radio in receive mode.
C14_ActuationOnlyAccepted ==
    obs.op = "loop" =>
        /\ led # obs.led => (Validated /\ obs.ret /\ obs.outcome = "Accepted")
        /\ (obs.outcome = "Accepted" /\ obs.pkt.action = 0) => led = "unlocked"
        /\ (obs.outcome = "Accepted" /\ obs.pkt.action = 1) => led = "locked"
        /\ obs.outcome \in {"WrongSize", "RejectedIdMismatch", "RejectedNoCodeMatch",
                            "RejectedTimeCodeMismatch"}
           => (~obs.ret /\ led = obs.led /\ phase = "run" /\ radio = "rx")

\* C14 witness: an accepted unlock packet has unlocked the car
C14_Witness ==
    /\ Validated
    /\ obs.outcome = "Accepted"
    /\ obs.pkt.action = 0
    /\ obs.led = "locked"
    /\ led = "unlocked"

\* C15 (as claimed): a received frame reaches validatePacket if and only if it
\* is 17 bytes long (4 + 4 + 1 + 4 + 4, no padding); a frame of any other length
\* leaves lastRollingCounter, lastSavedCounter, the EEPROM and the lock output
\* as they were.
C15_Framing ==
    obs.op = "loop" =>
        /\ (obs.outcome # "WrongSize") <=> (obs.len = 17)
        /\ obs.len # 17 => /\ lastRollingCounter = obs.counter
                           /\ lastSavedCounter = obs.saved
                           /\ eeprom = obs.store
                           /\ led = obs.led

\* C16: while the receiver runs and polls, the radio is in receive mode; a
\* validation that sends the sync puts the radio in transmit mode and then back
\* in receive mode, whether the sync goes out or not, and a frame handled
\* without a sync does not switch the radio to transmit mode at all.
C16_RadioBackToRx ==
    /\ phase = "run" => radio = "rx"
    /\ obs.op = "loop" =>
          /\ radio = "rx"
          /\ obs.syncs = 1 => obs.radio = <<"tx", "rx">>
          /\ obs.syncs = 0 => obs.radio = <<>>
          /\ obs.outcome # "RejectedTimeCodeMismatch" => obs.radio = <<>>

\* C16 witness: the sync was handed to the radio and did not go out, and the
\* radio is back in receive mode
C16_Witness ==
    /\ Validated
    /\ obs.outcome = "RejectedTimeCodeMismatch"
    /\ obs.syncs = 1
    /\ obs.sent = 0
    /\ obs.radio = <<"tx", "rx">>
    /\ radio = "rx"

\* counter L is within 256 of 2^32: L >= 2^32 - 256
NearWrap(L) == L[1] = 65535 /\ L[2] >= 65536 - 256

\* (L + n) mod 2^32 for a counter L within 256 of 2^32 and 0 <= n <= 256
WrapSum(L, n) ==
    IF L[2] + n >= 65536 THEN <<0, L[2] + n - 65536>> ELSE <<65535, L[2] + n>>

\* C17 (as claimed): with lastRollingCounter = L within 256 of 2^32, a packet with
\* matching IDs, the rolling code of counter (L + k) mod 2^32 (0 <= k < 256) and a
\* valid time code is accepted, and lastRollingCounter becomes (L + k + 1) mod 2^32.
C17_WindowNearWrap_Original ==
    (Validated /\ IdsMatch(obs.pkt) /\ TimeCodeValid /\ NearWrap(obs.counter))
    => \A k \in 0..255 :
          obs.pkt.rollingCode = generateRollingCode(WrapSum(obs.counter, k))
          => /\ obs.outcome = "Accepted"
             /\ lastRollingCounter = WrapSum(obs.counter, k + 1)

\* C17 (amended): such a packet is accepted, the counter matched is
\* (L + j) mod 2^32 and lastRollingCounter becomes (L + j + 1) mod 2^32, where j is
\* the least offset in 0..255 whose counter (L + j) mod 2^32 has the packet's
\* rolling code (j = k unless an earlier counter of the window has the same code).
C17_WindowNearWrap ==
    (Validated /\ IdsMatch(obs.pkt) /\ TimeCodeValid /\ NearWrap(obs.counter))
    => \A hits \in {{k \in 0..255 :
                        obs.pkt.rollingCode = generateRollingCode(WrapSum(obs.counter, k))}} :
          hits # {} =>
             /\ obs.outcome = "Accepted"
             /\ \E j \in hits : /\ \A i \in hits : j <= i
                                /\ obs.matched = <<WrapSum(obs.counter, j)>>
                                /\ lastRollingCounter = WrapSum(obs.counter, j + 1)

\* C17 witness: at 0xFFFFFFFF the code of a counter past the wrap was accepted,
\* and the counter went on from it
C17_Witness ==
    /\ Validated
    /\ obs.counter = UINT32_MAX
    /\ obs.outcome = "Accepted"
    /\ obs.matched = <<U32(253)>>
    /\ lastRollingCounter = U32(254)

\* C18: when the packet's rolling code is that of one or more counters of the
\* window, a being the least of their offsets, the scan evaluates the offsets
\* 0..a and no offset after a; the counter matched is L + a; the validation ends
\* in acceptance or in the time-code mismatch as the packet's time code decides,
\* after one or two time codes computed for this one match; and on acceptance
\* lastRollingCounter is L + a + 1 (32-bit arithmetic) whether or not a later
\* offset b has the same code.
C18_FirstMatchDecides ==
    (Validated /\ IdsMatch(obs.pkt))
    => LET hits == WindowHits(obs.pkt.rollingCode, obs.counter)
       IN  \A a \in hits :
              (\A i \in hits : a <= i)
              => /\ obs.rcEvals = a + 1
                 /\ \A b \in hits : b > a => b >= obs.rcEvals
                 /\ obs.matched = <<Add32(obs.counter, a)>>
                 /\ obs.outcome = IF TimeCodeValid THEN "Accepted"
                                  ELSE "RejectedTimeCodeMismatch"
                 /\ obs.totpEvals \in {1, 2}
                 /\ obs.totpEvals = 1 <=> obs.pkt.totp = generateTOTP(U32(obs.sec \div 30))
                 /\ obs.ret => lastRollingCounter = Add32(obs.counter, a + 1)

\* C18 witness: two offsets of the window had the packet's code, the packet was
\* accepted at the first and the second was not evaluated
C18_Witness ==
    /\ Validated
    /\ obs.outcome = "Accepted"
    /\ \E a, b \in WindowHits(obs.pkt.rollingCode, obs.counter) :
          /\ a < b
          /\ obs.rcEvals = a + 1
          /\ lastRollingCounter = Add32(obs.counter, a + 1)

\* C19: every validation ends in one of the four outcomes, returning true
\* exactly on acceptance, after at most 256 rolling codes and at most 2 time
\* codes computed: none of either on an ID mismatch, 256 and none when no code
\* matches, 1..256 and 1..2 otherwise; also where lastRollingCounter + offset
\* wraps. The loop's offset can hold the 256 that ends the loop.
C19_BoundedValidation ==
    Validated =>
        /\ phase = "run"
        /\ ROLLING_WINDOW <= OffsetMax
        /\ obs.outcome \in {"Accepted", "RejectedIdMismatch", "RejectedNoCodeMatch",
                            "RejectedTimeCodeMismatch"}
        /\ obs.ret <=> obs.outcome = "Accepted"
        /\ obs.rcEvals \in 0..256
        /\ obs.totpEvals \in 0..2
        /\ obs.outcome = "RejectedIdMismatch" => (obs.rcEvals = 0 /\ obs.totpEvals = 0)
        /\ obs.outcome = "RejectedNoCodeMatch" => (obs.rcEvals = 256 /\ obs.totpEvals = 0)
        /\ obs.outcome \in {"Accepted", "RejectedTimeCodeMismatch"}
           => (obs.rcEvals \in 1..256 /\ obs.totpEvals \in 1..2)

\* C19 witness: at 0xFFFFFFFF, where every offset but 0 wraps, a validation ran
\* through the whole window and ended in no code match
C19_Witness ==
    /\ Validated
    /\ obs.counter = UINT32_MAX
    /\ IdsMatch(obs.pkt)
    /\ obs.outcome = "RejectedNoCodeMatch"
    /\ obs.rcEvals = 256

\* C20: an accepted packet whose action is neither 0 nor 1 advances
\* lastRollingCounter as any accepted packet does, to the counter after the one
\* matched, and the lock output after it is the lock output before it.
C20_UnknownActionNoActuation ==
    (Validated /\ obs.outcome = "Accepted" /\ obs.pkt.action \notin {0, 1})
    => /\ led = obs.led
       /\ obs.matched # <<>>
       /\ lastRollingCounter = Add32(obs.matched[1], 1)
       /\ lastRollingCounter # obs.counter

\* C20 witness: with the car unlocked, a packet with action 2 was accepted; the
\* counter advanced and the car is still unlocked
C20_Witness ==
    /\ Validated
    /\ obs.outcome = "Accepted"
    /\ obs.pkt.action = 2
    /\ obs.led = "unlocked"
    /\ led = "unlocked"
    /\ lastRollingCounter = Add32(obs.counter, 1)

====
